---- MODULE Spec2Model ----
(***************************************************************************)
(* Model of _1D::SimpsonRule<T, NN> (libIntegrate, SimpsonRule.hpp).       *)
(*                                                                         *)
(* The scalar type T is modelled by exact rationals <<num, den>> in lowest *)
(* terms with den > 0.  The four call operators are modelled statement by  *)
(* statement:                                                              *)
(*   A  operator()(F f, T a, T b, std::size_t N)   (SFINAE on NN_ = 0)     *)
(*   B  operator()(F f, T a, T b)                  (SFINAE on NN_ > 0)     *)
(*   C  operator()(const X& x, const Y& y)                                 *)
(*   D  operator()(const Y& y, T dx = 1)                                   *)
(* The callable f handed to A and B is a polynomial given by its           *)
(* coefficient sequence <<c0, c1, ...>>.                                   *)
(***************************************************************************)
EXTENDS Integers, Sequences, FiniteSets, TLC

VARIABLES
    NN,      \* template parameter NN of the instance
    NN_,     \* template argument NN_ of the call (NN unless the caller names it)
    SFINAE,  \* third template argument of the call: "default" or "named"
    op,      \* operator in progress: "none", "A", "B", "C", "D"
    pc,      \* position in it: "idle", "loop", "done", "fault"
    f,       \* A/B: the callable (coefficient sequence)
    a,       \* A/B: argument a
    b,       \* A/B: argument b
    N,       \* A: argument N
    x,       \* C: container x
    y,       \* C/D: container y
    oob,     \* D: coefficient, in the value returned, of the value of T stored
             \*    just before y[0] (0 unless the call has read it)
    dx,      \* A/B: local dx;  D: argument dx
    cur,     \* A/B: local x (the left end of the current sub-interval)
    i,       \* loop index (std::size_t, as limbs)
    sum,     \* local sum
    order,   \* A/B: order in which the build evaluates the three calls of f
    pend,    \* A/B: how many of the three calls of this iteration are done
    fv,      \* A/B: values returned by the calls of this iteration
    evals,   \* A/B: arguments passed to f so far, in call order
    reads,   \* C/D: indices used so far in x[.] / y[.]
    cover,   \* C/D: per pair [k, k+1], number of contributions spanning it
    iters,   \* C/D: iterations of the main loop so far
    tail     \* C/D: whether the tail term was added to sum

vars == << NN, NN_, SFINAE, oob, op, pc, f, a, b, N, x, y, dx, cur, i, sum,
           order, pend, fv,
           evals, reads, cover, iters, tail >>

----------------------------------------------------------------------------
(* Bounds of the model *)

\* largest subdivision count N (and NN)
MaxN == 3
\* largest container size
MaxLen == 6
\* interval ends a, b are drawn from -1 .. MaxEnd (and 1/2)
MaxEnd == 1

\* width of std::size_t
SizeBits == 64

----------------------------------------------------------------------------
(* The scalar type T: exact rational arithmetic *)

Abs(n) == IF n < 0 THEN -n ELSE n

RECURSIVE GCD(_, _)
GCD(m, n) == IF n = 0 THEN m ELSE GCD(n, m % n)

\* the rational n/d in lowest terms, d # 0
Rat(n, d) ==
    LET g == GCD(Abs(n), Abs(d))
        s == IF d < 0 THEN -1 ELSE 1
    IN  << (s * n) \div g, (s * d) \div g >>

RInt(k) == << k, 1 >>
\* sums over the least common denominator, products cross-reduced first
RAdd(p, q) ==
    LET g == GCD(p[2], q[2])
    IN  Rat(p[1] * (q[2] \div g) + q[1] * (p[2] \div g), p[2] * (q[2] \div g))
RSub(p, q) ==
    LET g == GCD(p[2], q[2])
    IN  Rat(p[1] * (q[2] \div g) - q[1] * (p[2] \div g), p[2] * (q[2] \div g))
RMul(p, q) ==
    LET g == GCD(Abs(p[1]), q[2])
        h == GCD(Abs(q[1]), p[2])
    IN  Rat((p[1] \div g) * (q[1] \div h), (p[2] \div h) * (q[2] \div g))
RDiv(p, q) == RMul(p, Rat(q[2], q[1]))
RNeg(p) == << -p[1], p[2] >>
RLeq(p, q) == p[1] * q[2] <= q[1] * p[2]
RLess(p, q) == p[1] * q[2] < q[1] * p[2]

\* std::size_t: a value is held as its digits in base 2^16, most significant
\* first (64 bits: four limbs), and the arithmetic is done limb by limb
LimbBase == 2 ^ 16
NumLimbs == SizeBits \div 16

\* the std::size_t with value n, for 0 <= n < 2^31
SizeT(n) ==
    [ k \in 1 .. NumLimbs |->
        IF k = NumLimbs THEN n % LimbBase
        ELSE IF k = NumLimbs - 1 THEN n \div LimbBase
        ELSE 0 ]

\* the value of a std::size_t below 2^31
Val(u) == u[NumLimbs - 1] * LimbBase + u[NumLimbs]

\* the largest std::size_t, 2^64 - 1
SizeMax == [ k \in 1 .. NumLimbs |-> LimbBase - 1 ]

\* unsigned <
ULess(u, v) ==
    \E k \in 1 .. NumLimbs : u[k] < v[k] /\ \A j \in 1 .. k - 1 : u[j] = v[j]

\* borrow out of limb k of u - v, carry out of limb k of u + v
RECURSIVE Borrow(_, _, _)
Borrow(u, v, k) ==
    IF k > NumLimbs THEN 0
    ELSE IF u[k] - v[k] - Borrow(u, v, k + 1) < 0 THEN 1 ELSE 0

RECURSIVE Carry(_, _, _)
Carry(u, v, k) ==
    IF k > NumLimbs THEN 0
    ELSE IF u[k] + v[k] + Carry(u, v, k + 1) >= LimbBase THEN 1 ELSE 0

\* unsigned subtraction and addition, modulo 2^64
USub(u, v) ==
    [ k \in 1 .. NumLimbs |->
        (u[k] - v[k] - Borrow(u, v, k + 1) + LimbBase) % LimbBase ]
UAdd(u, v) ==
    [ k \in 1 .. NumLimbs |-> (u[k] + v[k] + Carry(u, v, k + 1)) % LimbBase ]

----------------------------------------------------------------------------
(* The callable f: a polynomial  c[1] + c[2] t + c[3] t^2 + ...  (Horner) *)

RECURSIVE Horner(_, _, _)
Horner(c, t, k) ==
    IF k > Len(c) THEN RInt(0)
    ELSE RAdd(RInt(c[k]), RMul(t, Horner(c, t, k + 1)))

Call(c, t) == Horner(c, t, 1)

\* polynomials: the sampled functions of C and D, the callables of A and B
Quadratics == { << c0, c1, c2 >> : c0 \in {-1, 0, 1}, c1 \in {-1, 0, 1}, c2 \in {-1, 0, 1} }
Cubics == { << 0, 0, 0, 1 >>, << 1, -1, 0, 1 >>, << 0, 1, 1, -1 >>, << -1, 0, 2, 1 >> }
Quartics == { << 0, 0, 0, 0, 1 >>, << 1, 0, -1, 0, 1 >> }
Funcs == Quadratics \cup Cubics \cup Quartics
Callables ==
    { << 0, 0, 1 >>, << 1, -1, 0 >>, << 0, 1, 1, -1 >>, << -1, 0, 2, 1 >>,
      << 1, 0, -1, 0, 1 >> }

\* interval ends handed to A and B
Ends == { RInt(k) : k \in -1 .. MaxEnd } \cup { << 1, 2 >> }

\* the orders in which a build may evaluate the three calls of
\* f(x) + 4 * f(x + dx / 2) + f(x + dx): the operands of + are unsequenced
Tags == { "l", "m", "r" }
Orders == { o \in [1 .. 3 -> Tags] : { o[k] : k \in 1 .. 3 } = Tags }

NoVals == [ l |-> RInt(0), m |-> RInt(0), r |-> RInt(0) ]

----------------------------------------------------------------------------
(* State after construction: SimpsonRule() = default; no call in progress *)

Idle ==
    /\ op = "none" /\ pc = "idle"
    /\ f = << >> /\ a = RInt(0) /\ b = RInt(0) /\ N = 0
    /\ x = << >> /\ y = << >> /\ dx = RInt(0) /\ cur = RInt(0)
    /\ i = SizeT(0) /\ sum = RInt(0)
    /\ order = << >> /\ pend = 0 /\ fv = NoVals /\ evals = << >>
    /\ reads = {} /\ cover = << >> /\ iters = 0 /\ tail = FALSE
    /\ oob = RInt(0)

Init == NN \in 0 .. MaxN /\ NN_ = NN /\ SFINAE = "default" /\ Idle

\* the call is over: its locals go out of scope
Return ==
    /\ pc \in { "done", "fault" }
    /\ op' = "none" /\ pc' = "idle"
    /\ f' = << >> /\ a' = RInt(0) /\ b' = RInt(0) /\ N' = 0
    /\ x' = << >> /\ y' = << >> /\ dx' = RInt(0) /\ cur' = RInt(0)
    /\ i' = SizeT(0) /\ sum' = RInt(0)
    /\ order' = << >> /\ pend' = 0 /\ fv' = NoVals /\ evals' = << >>
    /\ reads' = {} /\ cover' = << >> /\ iters' = 0 /\ tail' = FALSE
    /\ oob' = RInt(0)
    /\ NN_' = NN /\ SFINAE' = "default"
    /\ UNCHANGED NN

----------------------------------------------------------------------------
(* Operation A:  T operator()(F f, T a, T b, std::size_t N) const *)

\* typename SFINAE = typename std::enable_if<(NN_ == 0)>::type: the test is
\* the default argument of the third template parameter, and it is on NN_,
\* the second, which defaults to NN. A caller may name NN_, and a caller who
\* names SFINAE too leaves the test uninstantiated
EnabledA(nn_, sf) == sf = "named" \/ nn_ = 0

\* mutant: the step taken as a length, |b - a| / N
A_dx_Mut(aa, bb, n) == RDiv(Rat(Abs(RSub(bb, aa)[1]), RSub(bb, aa)[2]), RInt(n))

\* T dx = static_cast<T>(b - a) / N;
A_dx(aa, bb, n) == RDiv(RSub(bb, aa), RInt(n))

\* mutant: the midpoint taken at x + 2 dx
A_Point_Mut(tag, c, d) ==
    CASE tag = "l" -> c
      [] tag = "m" -> RAdd(c, RMul(d, RInt(2)))
      [] tag = "r" -> RAdd(c, d)

\* the argument of one of the three calls: x, x + dx / 2, x + dx
A_Point(tag, c, d) ==
    CASE tag = "l" -> c
      [] tag = "m" -> RAdd(c, RDiv(d, RInt(2)))
      [] tag = "r" -> RAdd(c, d)

\* mutant: the midpoint weighted by 2
A_Term_Mut(vl, vm, vr) == RAdd(RAdd(vl, RMul(RInt(2), vm)), vr)

\* f(x) + 4 * f(x + dx / 2) + f(x + dx)
A_Term(vl, vm, vr) == RAdd(RAdd(vl, RMul(RInt(4), vm)), vr)

\* sum *= dx / 6;
A_Scale(s, d) == RMul(s, RDiv(d, RInt(6)))

CallA ==
    /\ pc = "idle"
    /\ \E nn_ \in 0 .. MaxN, sf \in { "default", "named" } :
          EnabledA(nn_, sf) /\ NN_' = nn_ /\ SFINAE' = sf
    /\ \E ff \in Callables, aa \in Ends, bb \in Ends, n \in 1 .. MaxN, ord \in Orders :
          /\ f' = ff /\ a' = aa /\ b' = bb /\ N' = n
          /\ dx' = A_dx(aa, bb, n)
          /\ cur' = aa
          /\ order' = ord
    /\ op' = "A" /\ pc' = "loop"
    /\ sum' = RInt(0)
    /\ i' = SizeT(0)
    /\ pend' = 0 /\ fv' = NoVals /\ evals' = << >>
    /\ UNCHANGED << NN, oob, x, y, reads, cover, iters, tail >>

\* one of the three calls of f in the loop body
A_Eval ==
    /\ op = "A" /\ pc = "loop"
    /\ ULess(i, SizeT(N))
    /\ pend < 3
    /\ LET tag == order[pend + 1]
           t == A_Point(tag, cur, dx)
       IN  /\ evals' = Append(evals, t)
           /\ fv' = [fv EXCEPT ![tag] = Call(f, t)]
    /\ pend' = pend + 1
    /\ UNCHANGED << NN, NN_, SFINAE, oob, op, pc, f, a, b, N, x, y, dx, cur, i, sum, order,
                    reads, cover, iters, tail >>

\* sum += ...; then i++, x += dx
A_Accum ==
    /\ op = "A" /\ pc = "loop"
    /\ ULess(i, SizeT(N))
    /\ pend = 3
    /\ sum' = RAdd(sum, A_Term(fv.l, fv.m, fv.r))
    /\ i' = UAdd(i, SizeT(1))
    /\ cur' = RAdd(cur, dx)
    /\ pend' = 0 /\ fv' = NoVals
    /\ UNCHANGED << NN, NN_, SFINAE, oob, op, pc, f, a, b, N, x, y, dx, order, evals,
                    reads, cover, iters, tail >>

\* loop exit; sum *= dx / 6; return sum;
A_Finish ==
    /\ op = "A" /\ pc = "loop"
    /\ ~ULess(i, SizeT(N))
    /\ sum' = A_Scale(sum, dx)
    /\ pc' = "done"
    /\ UNCHANGED << NN, NN_, SFINAE, oob, op, f, a, b, N, x, y, dx, cur, i, order, pend, fv,
                    evals, reads, cover, iters, tail >>

\* the whole of Operation A as a function of its arguments
RECURSIVE OpA_Loop(_, _, _, _, _, _)
OpA_Loop(ff, c, d, k, n, s) ==
    IF k < n
    THEN OpA_Loop(ff, RAdd(c, d), d, k + 1, n,
                  RAdd(s, A_Term(Call(ff, A_Point("l", c, d)),
                                 Call(ff, A_Point("m", c, d)),
                                 Call(ff, A_Point("r", c, d)))))
    ELSE s

OpA(ff, aa, bb, n) ==
    A_Scale(OpA_Loop(ff, aa, A_dx(aa, bb, n), 0, n, RInt(0)), A_dx(aa, bb, n))

\* the arguments Operation A passes to f, in call order, for a build that
\* evaluates the three calls in the order ord
RECURSIVE OpA_Evals(_, _, _, _, _)
OpA_Evals(c, d, k, n, ord) ==
    IF k < n
    THEN << A_Point(ord[1], c, d), A_Point(ord[2], c, d), A_Point(ord[3], c, d) >>
         \o OpA_Evals(RAdd(c, d), d, k + 1, n, ord)
    ELSE << >>

----------------------------------------------------------------------------
(* Operation B:  T operator()(F f, T a, T b) const,  N fixed to NN *)

\* typename SFINAE = typename std::enable_if<(NN_ > 0)>::type, as for
\* Operation A
EnabledB(nn_, sf) == sf = "named" \/ nn_ > 0

Sign(n) == IF n < 0 THEN -1 ELSE IF n > 0 THEN 1 ELSE 0

\* T dx = static_cast<T>(b - a) / NN;  the body divides by NN, not by NN_.
\* With NN = 0 an IEEE T gives an infinity << 1, 0 >>, << -1, 0 >> or a
\* NaN << 0, 0 >>
B_dx(aa, bb, nn) ==
    IF nn = 0 THEN << Sign(RSub(bb, aa)[1]), 0 >>
    ELSE RDiv(RSub(bb, aa), RInt(nn))

\* entry; with NN = 0 the division by zero either traps or gives a
\* non-finite dx
CallB ==
    /\ pc = "idle"
    /\ \E nn_ \in 0 .. MaxN, sf \in { "default", "named" } :
          EnabledB(nn_, sf) /\ NN_' = nn_ /\ SFINAE' = sf
    /\ \E ff \in Callables, aa \in Ends, bb \in Ends, ord \in Orders :
          /\ f' = ff /\ a' = aa /\ b' = bb
          /\ dx' = B_dx(aa, bb, NN)
          /\ cur' = aa
          /\ order' = ord
    /\ op' = "B"
    /\ IF NN = 0 THEN pc' \in { "loop", "fault" } ELSE pc' = "loop"
    /\ sum' = RInt(0)
    /\ i' = SizeT(0)
    /\ pend' = 0 /\ fv' = NoVals /\ evals' = << >>
    /\ UNCHANGED << NN, oob, N, x, y, reads, cover, iters, tail >>

\* the argument of one of the three calls: x, x + dx / 2, x + dx
B_Point(tag, c, d) ==
    CASE tag = "l" -> c
      [] tag = "m" -> RAdd(c, RDiv(d, RInt(2)))
      [] tag = "r" -> RAdd(c, d)

B_Eval ==
    /\ op = "B" /\ pc = "loop"
    /\ ULess(i, SizeT(NN))
    /\ pend < 3
    /\ LET tag == order[pend + 1]
           t == B_Point(tag, cur, dx)
       IN  /\ evals' = Append(evals, t)
           /\ fv' = [fv EXCEPT ![tag] = Call(f, t)]
    /\ pend' = pend + 1
    /\ UNCHANGED << NN, NN_, SFINAE, oob, op, pc, f, a, b, N, x, y, dx, cur, i, sum, order,
                    reads, cover, iters, tail >>

\* f(x) + 4 * f(x + dx / 2) + f(x + dx)
B_Term(vl, vm, vr) == RAdd(RAdd(vl, RMul(RInt(4), vm)), vr)

B_Accum ==
    /\ op = "B" /\ pc = "loop"
    /\ ULess(i, SizeT(NN))
    /\ pend = 3
    /\ sum' = RAdd(sum, B_Term(fv.l, fv.m, fv.r))
    /\ i' = UAdd(i, SizeT(1))
    /\ cur' = RAdd(cur, dx)
    /\ pend' = 0 /\ fv' = NoVals
    /\ UNCHANGED << NN, NN_, SFINAE, oob, op, pc, f, a, b, N, x, y, dx, order, evals,
                    reads, cover, iters, tail >>

\* sum *= dx / 6;  (a non-finite dx gives an infinity, or a NaN from 0 * inf)
B_Scale(s, d) ==
    IF d[2] = 0 THEN << Sign(s[1]) * d[1], 0 >>
    ELSE RMul(s, RDiv(d, RInt(6)))

B_Finish ==
    /\ op = "B" /\ pc = "loop"
    /\ ~ULess(i, SizeT(NN))
    /\ sum' = B_Scale(sum, dx)
    /\ pc' = "done"
    /\ UNCHANGED << NN, NN_, SFINAE, oob, op, f, a, b, N, x, y, dx, cur, i, order, pend, fv,
                    evals, reads, cover, iters, tail >>

----------------------------------------------------------------------------
(* Specification of the continuous operators *)

NextAB ==
    \/ CallA
    \/ A_Eval
    \/ A_Accum
    \/ A_Finish
    \/ CallB
    \/ B_Eval
    \/ B_Accum
    \/ B_Finish
    \/ Return

SpecAB == Init /\ [][NextAB]_vars

----------------------------------------------------------------------------
(* Containers: x[k] and y[k] of the source are 0-based *)

At(s, k) == s[Val(k) + 1]

\* mutant: the last division turned into a product
LagrangePolynomial_Mut(t, A, B, C) ==
    RMul(RDiv(RMul(RSub(t, A), RSub(t, B)), RSub(C, A)), RSub(C, B))

\* T LagrangePolynomial(T x, T A, T B, T C) const
LagrangePolynomial(t, A, B, C) ==
    RDiv(RDiv(RMul(RSub(t, A), RSub(t, B)), RSub(C, A)), RSub(C, B))

\* the abscissas x0, x0 + d, x0 + 2 d, ... (n of them)
Uniform(x0, d, n) == [ k \in 1 .. n |-> RAdd(x0, RMul(RInt(k - 1), d)) ]

\* the polynomial c sampled at the abscissas xs
Sample(c, xs) == [ k \in 1 .. Len(xs) |-> Call(c, xs[k]) ]

\* the sequence of n zeros with a one at position j
Unit(j, n) == [ k \in 1 .. n |-> IF k = j THEN RInt(1) ELSE RInt(0) ]

\* containers handed to C: x strictly increasing or strictly decreasing
Lens == 2 .. MaxLen
Increasing(n) ==
    { xs \in [1 .. n -> 0 .. MaxLen] : \A k \in 1 .. n - 1 : xs[k] < xs[k + 1] }
XSeqs(n) ==
    { [ k \in 1 .. n |-> RInt(xs[k]) ] : xs \in Increasing(n) }
        \cup { [ k \in 1 .. n |-> RInt(xs[n + 1 - k]) ] : xs \in Increasing(n) }
YSeqs(xs) ==
    { Sample(c, xs) : c \in Funcs } \cup { Unit(j, Len(xs)) : j \in 1 .. Len(xs) }

\* spacings and first abscissas of the uniform samples handed to D
DxVals == { RInt(1), RInt(-1), RInt(2), << 1, 2 >> }
X0Vals == { RInt(0), RInt(-1) }


----------------------------------------------------------------------------
(* Operation C:  operator()(const X &x, const Y &y) const *)

\* mutant: the loop stops one triple early, i + 3 < x.size()
C_LoopCond_Mut(k, n) == ULess(UAdd(k, SizeT(3)), SizeT(n))

\* i < x.size() - 2
C_LoopCond(k, n) == ULess(k, USub(SizeT(n), SizeT(2)))

\* mutant: the parity test inverted
C_HasTail_Mut(n) == n % 2 = 1 /\ n > 2

\* x.size() % 2 == 0, then x.size() > 2
C_HasTail(n) == n % 2 = 0 /\ n > 2

\* body of the loop: the contribution of the triple i, i+1, i+2
C_Triple(xs, ys, k) ==
    LET m == RDiv(RAdd(At(xs, k), At(xs, UAdd(k, SizeT(2)))), RInt(2))
        ym == RAdd(RAdd(
                RMul(At(ys, k),
                     LagrangePolynomial(m, At(xs, UAdd(k, SizeT(1))), At(xs, UAdd(k, SizeT(2))), At(xs, k))),
                RMul(At(ys, UAdd(k, SizeT(1))),
                     LagrangePolynomial(m, At(xs, k), At(xs, UAdd(k, SizeT(2))), At(xs, UAdd(k, SizeT(1)))))),
                RMul(At(ys, UAdd(k, SizeT(2))),
                     LagrangePolynomial(m, At(xs, k), At(xs, UAdd(k, SizeT(1))), At(xs, UAdd(k, SizeT(2))))))
    IN  RMul(RDiv(RSub(At(xs, UAdd(k, SizeT(2))), At(xs, k)), RInt(6)),
             RAdd(RAdd(At(ys, k), RMul(RInt(4), ym)), At(ys, UAdd(k, SizeT(2)))))

\* the tail: fit through the last three points, integrate between the last two
C_Tail(xs, ys, k) ==
    LET m == RDiv(RAdd(At(xs, UAdd(k, SizeT(1))), At(xs, UAdd(k, SizeT(2)))), RInt(2))
        ym == RAdd(RAdd(
                RMul(At(ys, k),
                     LagrangePolynomial(m, At(xs, UAdd(k, SizeT(1))), At(xs, UAdd(k, SizeT(2))), At(xs, k))),
                RMul(At(ys, UAdd(k, SizeT(1))),
                     LagrangePolynomial(m, At(xs, k), At(xs, UAdd(k, SizeT(2))), At(xs, UAdd(k, SizeT(1)))))),
                RMul(At(ys, UAdd(k, SizeT(2))),
                     LagrangePolynomial(m, At(xs, k), At(xs, UAdd(k, SizeT(1))), At(xs, UAdd(k, SizeT(2))))))
    IN  RMul(RDiv(RSub(At(xs, UAdd(k, SizeT(2))), At(xs, UAdd(k, SizeT(1)))), RInt(6)),
             RAdd(RAdd(At(ys, UAdd(k, SizeT(1))), RMul(RInt(4), ym)), At(ys, UAdd(k, SizeT(2)))))

\* one more contribution spanning the pairs [k, k+1] for k in ks (0-based)
Covered(cv, ks) == [ k \in DOMAIN cv |-> IF SizeT(k - 1) \in ks THEN cv[k] + 1 ELSE cv[k] ]

CallC ==
    /\ pc = "idle"
    /\ \E n \in Lens : \E xs \in XSeqs(n) : \E ys \in YSeqs(xs) :
          /\ x' = xs /\ y' = ys
          /\ cover' = [ k \in 1 .. n - 1 |-> 0 ]
    /\ op' = "C" /\ pc' = "loop"
    /\ sum' = RInt(0)
    /\ i' = SizeT(0)
    /\ reads' = {} /\ iters' = 0 /\ tail' = FALSE
    /\ UNCHANGED << NN, NN_, SFINAE, oob, f, a, b, N, dx, cur, order, pend, fv, evals >>

\* one iteration of the loop; i += 2
C_Loop ==
    /\ op = "C" /\ pc = "loop"
    /\ C_LoopCond(i, Len(x))
    /\ sum' = RAdd(sum, C_Triple(x, y, i))
    /\ reads' = reads \cup { i, UAdd(i, SizeT(1)), UAdd(i, SizeT(2)) }
    /\ cover' = Covered(cover, { i, UAdd(i, SizeT(1)) })
    /\ iters' = iters + 1
    /\ i' = UAdd(i, SizeT(2))
    /\ UNCHANGED << NN, NN_, SFINAE, oob, op, pc, f, a, b, N, x, y, dx, cur, order, pend, fv,
                    evals, tail >>

\* loop exit, the tail if there is one, return sum;
C_Finish ==
    /\ op = "C" /\ pc = "loop"
    /\ ~C_LoopCond(i, Len(x))
    /\ IF C_HasTail(Len(x))
       THEN LET j == USub(SizeT(Len(x)), SizeT(3))
            IN  /\ i' = j
                /\ sum' = RAdd(sum, C_Tail(x, y, j))
                /\ reads' = reads \cup { j, UAdd(j, SizeT(1)), UAdd(j, SizeT(2)) }
                /\ cover' = Covered(cover, { UAdd(j, SizeT(1)) })
                /\ tail' = TRUE
       ELSE UNCHANGED << i, sum, reads, cover, tail >>
    /\ pc' = "done"
    /\ UNCHANGED << NN, NN_, SFINAE, oob, op, f, a, b, N, x, y, dx, cur, order,
                    pend, fv,
                    evals, iters >>

\* the whole of Operation C as a function of its arguments
RECURSIVE OpC_Loop(_, _, _)
OpC_Loop(xs, ys, k) ==
    IF C_LoopCond(k, Len(xs))
    THEN RAdd(C_Triple(xs, ys, k), OpC_Loop(xs, ys, UAdd(k, SizeT(2))))
    ELSE RInt(0)

OpC(xs, ys) ==
    IF C_HasTail(Len(xs))
    THEN RAdd(OpC_Loop(xs, ys, SizeT(0)),
              C_Tail(xs, ys, USub(SizeT(Len(xs)), SizeT(3))))
    ELSE OpC_Loop(xs, ys, SizeT(0))

----------------------------------------------------------------------------
(* Operation D:  operator()(const Y &y, T dx = 1) const *)

\* i < y.size() - 2
D_LoopCond(k, n) == ULess(k, USub(SizeT(n), SizeT(2)))

\* mutant: the tail guarded as in Operation C
D_HasTail_Mut(n) == n % 2 = 0 /\ n > 2

\* y.size() % 2 == 0
D_HasTail(n) == n % 2 = 0

\* y[i] + 4*y[i+1] + y[i+2]
D_Triple(ys, k) ==
    RAdd(RAdd(At(ys, k), RMul(RInt(4), At(ys, UAdd(k, SizeT(1))))), At(ys, UAdd(k, SizeT(2))))

\* mutant: the loop sum scaled by dx/6
D_Scale_Mut(s, d) == RMul(s, RDiv(d, RInt(6)))

\* sum *= dx/3.;
D_Scale(s, d) == RMul(s, RDiv(d, RInt(3)))

\* mutant: the tail interpolated at dx/2, between the first two points
D_Tail_Mut(y0, y1, y2, d) ==
    LET t == RDiv(d, RInt(2))
        d2 == RMul(RInt(2), d)
        ym == RAdd(RAdd(
                RMul(y0, LagrangePolynomial(t, d, d2, RInt(0))),
                RMul(y1, LagrangePolynomial(t, RInt(0), d2, d))),
                RMul(y2, LagrangePolynomial(t, RInt(0), d, d2)))
    IN  RMul(RDiv(d, RInt(6)), RAdd(RAdd(y1, RMul(RInt(4), ym)), y2))

\* the tail, from the three values read at i, i+1, i+2
D_Tail(y0, y1, y2, d) ==
    LET t == RDiv(RMul(RInt(3), d), RInt(2))
        d2 == RMul(RInt(2), d)
        ym == RAdd(RAdd(
                RMul(y0, LagrangePolynomial(t, d, d2, RInt(0))),
                RMul(y1, LagrangePolynomial(t, RInt(0), d2, d))),
                RMul(y2, LagrangePolynomial(t, RInt(0), d, d2)))
    IN  RMul(RDiv(d, RInt(6)), RAdd(RAdd(y1, RMul(RInt(4), ym)), y2))

\* a zero dx is not drawn: the tail divides by dx * dx
CallD ==
    /\ pc = "idle"
    /\ \E n \in Lens, d \in DxVals :
          /\ dx' = d
          /\ \E ys \in { Sample(c, Uniform(x0, d, n)) : c \in Funcs, x0 \in X0Vals }
                           \cup { Unit(j, n) : j \in 1 .. n } :
                y' = ys
          /\ cover' = [ k \in 1 .. n - 1 |-> 0 ]
    /\ oob' = RInt(0)
    /\ op' = "D" /\ pc' = "loop"
    /\ sum' = RInt(0)
    /\ i' = SizeT(0)
    /\ reads' = {} /\ iters' = 0 /\ tail' = FALSE
    /\ UNCHANGED << NN, NN_, SFINAE, f, a, b, N, x, cur, order, pend, fv, evals >>

\* one iteration of the loop; i += 2
D_Loop ==
    /\ op = "D" /\ pc = "loop"
    /\ D_LoopCond(i, Len(y))
    /\ sum' = RAdd(sum, D_Triple(y, i))
    /\ reads' = reads \cup { i, UAdd(i, SizeT(1)), UAdd(i, SizeT(2)) }
    /\ cover' = Covered(cover, { i, UAdd(i, SizeT(1)) })
    /\ iters' = iters + 1
    /\ i' = UAdd(i, SizeT(2))
    /\ UNCHANGED << NN, NN_, SFINAE, oob, op, pc, f, a, b, N, x, y, dx, cur, order, pend, fv,
                    evals, tail >>

\* the value returned by a call that has read the value g of T stored just
\* before y[0]: the tail is linear in the three values it reads
Returned(s, c, g) == RAdd(s, RMul(c, g))

\* loop exit, sum *= dx/3., the tail if the size is even, return sum;
\* with size 2 the tail's i = y.size() - 3 wraps around to 2^64 - 1 and y[i] is
\* out of bounds.  A checked container faults at that read: the operands of ym
\* are evaluated in an unspecified order, so y[i+1] and y[i+2] may or may not
\* have been read by then, and sum += (line 114) is not reached.  An unchecked
\* container reads the value g stored before y[0], whatever it is, and the
\* call returns sum + oob * g
D_Finish ==
    /\ op = "D" /\ pc = "loop"
    /\ ~D_LoopCond(i, Len(y))
    /\ IF D_HasTail(Len(y))
       THEN LET j == USub(SizeT(Len(y)), SizeT(3))
                j1 == UAdd(j, SizeT(1))
                j2 == UAdd(j, SizeT(2))
                s == D_Scale(sum, dx)
            IN  /\ i' = j
                /\ IF ULess(j, SizeT(Len(y)))
                   THEN /\ sum' = RAdd(s, D_Tail(At(y, j), At(y, j1), At(y, j2), dx))
                        /\ reads' = reads \cup { j, j1, j2 }
                        /\ cover' = Covered(cover, { j1 })
                        /\ tail' = TRUE
                        /\ pc' = "done"
                        /\ UNCHANGED oob
                   ELSE \/ /\ sum' = s
                           /\ \E rd \in SUBSET { j1, j2 } :
                                 reads' = reads \cup { j } \cup rd
                           /\ pc' = "fault"
                           /\ UNCHANGED << oob, cover, tail >>
                        \/ /\ sum' = RAdd(s, D_Tail(RInt(0), At(y, j1), At(y, j2), dx))
                           /\ oob' = D_Tail(RInt(1), RInt(0), RInt(0), dx)
                           /\ reads' = reads \cup { j, j1, j2 }
                           /\ cover' = Covered(cover, { j1 })
                           /\ tail' = TRUE
                           /\ pc' = "done"
       ELSE /\ sum' = D_Scale(sum, dx)
            /\ pc' = "done"
            /\ UNCHANGED << i, reads, cover, tail, oob >>
    /\ UNCHANGED << NN, NN_, SFINAE, op, f, a, b, N, x, y, dx, cur, order,
                    pend, fv, evals, iters >>

----------------------------------------------------------------------------
(* Specification of the discretized operators, and of all four *)

NextCD ==
    \/ CallC
    \/ C_Loop
    \/ C_Finish
    \/ CallD
    \/ D_Loop
    \/ D_Finish
    \/ Return

\* C and D do not depend on NN: they are run on a SimpsonRule<T> (NN = 0)
InitCD == NN = 0 /\ NN_ = NN /\ SFINAE = "default" /\ Idle

SpecCD == InitCD /\ [][NextCD]_vars

Next ==
    \/ CallA \/ A_Eval \/ A_Accum \/ A_Finish
    \/ CallB \/ B_Eval \/ B_Accum \/ B_Finish
    \/ CallC \/ C_Loop \/ C_Finish
    \/ CallD \/ D_Loop \/ D_Finish
    \/ Return

Spec == Init /\ [][Next]_vars

----------------------------------------------------------------------------
(* Analytic reference values *)

RECURSIVE RPow(_, _)
RPow(t, k) == IF k = 0 THEN RInt(1) ELSE RMul(t, RPow(t, k - 1))

\* antiderivative of the polynomial c at t:  sum of c[k] t^k / k
RECURSIVE AntiD(_, _, _)
AntiD(c, t, k) ==
    IF k > Len(c) THEN RInt(0)
    ELSE RAdd(RMul(Rat(c[k], k), RPow(t, k)), AntiD(c, t, k + 1))

\* the integral of the polynomial c from lo to hi
Integral(c, lo, hi) == RSub(AntiD(c, hi, 1), AntiD(c, lo, 1))

Degree(c) ==
    LET nz == { k \in 1 .. Len(c) : c[k] # 0 }
    IN  IF nz = {} THEN 0 ELSE (CHOOSE k \in nz : \A j \in nz : j <= k) - 1

----------------------------------------------------------------------------
(* Properties of the continuous operators *)

\* C3: for a polynomial f of degree <= 3, any a, b and any N >= 1, Operation A
\* and Operation B return exactly the analytic integral of f over [a, b].
C3_Exact ==
    (pc = "done" /\ op \in { "A", "B" } /\ Degree(f) <= 3
        /\ (op = "B" => NN >= 1))
        => sum = Integral(f, a, b)

\* f(x) = x^2, a = 0, b = 1, N = 1 gives 1/3
C3_Witness ==
    /\ pc = "done" /\ op = "A"
    /\ f = << 0, 0, 1 >> /\ a = RInt(0) /\ b = RInt(1) /\ N = 1
    /\ sum = << 1, 3 >>

\* C5: Operation A over [a, b] with N returns the negation of Operation A over
\* [b, a] with the same N.
C5_Antisymmetry ==
    (pc = "done" /\ op = "A") => sum = RNeg(OpA(f, b, a, N))

\* a reversed call (b < a) with a non-zero result
C5_Witness ==
    /\ pc = "done" /\ op = "A"
    /\ RLess(b, a) /\ N > 1
    /\ sum # RInt(0)

\* index of the sub-interval the k-th call of f belongs to
Group(k) == (k - 1) \div 3

\* C6 as stated, for a build that makes the three calls of an iteration in
\* source order (left end, midpoint, right end): during a call of Operation A
\* the arguments passed to f form a non-decreasing sequence, whatever a and b.
C6_Original ==
    (op = "A" /\ order = << "l", "m", "r" >>) =>
        \A k \in 1 .. Len(evals) - 1 : RLeq(evals[k], evals[k + 1])

\* C6 as amended: Operation A visits the sub-intervals in order from a towards
\* b.  The three calls of sub-interval g are made at a + g dx, a + g dx + dx/2
\* and a + (g+1) dx, each once, in the order the build gives the operands of
\* the sum; every argument of an earlier sub-interval is <= every argument of
\* a later one when a <= b, and >= when b <= a.
C6_Amended ==
    op = "A" =>
        /\ \A j \in 1 .. Len(evals), k \in 1 .. Len(evals) :
              Group(j) < Group(k) =>
                  /\ RLeq(a, b) => RLeq(evals[j], evals[k])
                  /\ RLeq(b, a) => RLeq(evals[k], evals[j])
        /\ \A k \in 1 .. Len(evals) :
              LET left == RAdd(a, RMul(RInt(Group(k)), dx))
              IN  evals[k] = A_Point(order[((k - 1) % 3) + 1], left, dx)
        /\ pc = "done" => Len(evals) = 3 * N

\* a finished call over several sub-intervals, in either direction
C6_Witness ==
    /\ pc = "done" /\ op = "A"
    /\ N = MaxN /\ a # b
    /\ Len(evals) = 3 * MaxN

\* B with NN >= 1 does what A does with N = NN: the same arguments passed to
\* f (for the same operand order of the build) and the same result
BRefinesA ==
    (pc = "done" /\ op = "B" /\ NN >= 1) =>
        /\ sum = OpA(f, a, b, NN)
        /\ evals = OpA_Evals(a, A_dx(a, b, NN), 0, NN, order)

\* C8: Operation B on an instance with NN >= 1 passes to f the sequence of
\* arguments Operation A passes with N = NN and returns the same result; and
\* an instance offers exactly one of the two modes: Operation A iff NN = 0,
\* Operation B iff NN > 0.
C8_Original ==
    /\ BRefinesA
    /\ (pc \in { "done", "fault" } /\ op = "A") => NN = 0
    /\ (pc \in { "done", "fault" } /\ op = "B") => NN > 0

\* C8, what holds of the code: the equivalence of B and A, and the two modes
\* exclusive for the calls that leave NN_ and SFINAE at their defaults
C8_DefaultSyntax ==
    /\ BRefinesA
    /\ (pc \in { "done", "fault" } /\ op = "A" /\ SFINAE = "default" /\ NN_ = NN)
          => NN = 0
    /\ (pc \in { "done", "fault" } /\ op = "B" /\ SFINAE = "default" /\ NN_ = NN)
          => NN > 0

----------------------------------------------------------------------------
(* Properties of the discretized operators *)

\* the call of C or D in progress has finished normally on a container within
\* the documented precondition (3 or more elements)
DoneCD(o) == op = o /\ pc = "done" /\ Len(y) >= 3

\* x is evenly spaced
IsUniform(xs) == xs = Uniform(xs[1], RSub(xs[2], xs[1]), Len(xs))

\* C1: for every sample count n >= 3, odd or even, the contributions of
\* Operation C (and of Operation D) span every consecutive pair of points
\* [k, k+1], 0 <= k < n-1, exactly once.
C1_CoverOnce ==
    (DoneCD("C") \/ DoneCD("D")) => \A k \in 1 .. Len(y) - 1 : cover[k] = 1

\* an even count with two full triples and a tail
C1_Witness == DoneCD("C") /\ Len(x) = 6 /\ iters = 2 /\ tail

\* the exact integral of c over the sampled range is returned, for D on the
\* samples of c at x0, x0 + dx, ... and for C on evenly spaced x
ExactOnUniform(c) ==
    /\ DoneCD("D") =>
          \A x0 \in X0Vals :
              y = Sample(c, Uniform(x0, dx, Len(y))) =>
                  sum = Integral(c, x0, RAdd(x0, RMul(RInt(Len(y) - 1), dx)))
    /\ (DoneCD("C") /\ IsUniform(x)) =>
          (y = Sample(c, x) => sum = Integral(c, x[1], x[Len(x)]))

\* C2 as stated: a quadratic or cubic sampled at evenly spaced points is
\* integrated exactly by D, and by C on the same points, for odd and for even
\* sample counts.
C2_Original == \A c \in Quadratics \cup Cubics : ExactOnUniform(c)

\* C2 as amended: a polynomial of degree <= 2 sampled at evenly spaced points
\* is integrated exactly for odd and for even sample counts n >= 3; a cubic
\* is integrated exactly when n is odd (no tail).
C2_Amended ==
    /\ \A c \in Quadratics : ExactOnUniform(c)
    /\ Len(y) % 2 = 1 => \A c \in Cubics : ExactOnUniform(c)

\* y = [0, 1, 4, 9] with dx = 1 gives exactly 9, through the tail
C2_Witness ==
    /\ DoneCD("D") /\ tail
    /\ y = << RInt(0), RInt(1), RInt(4), RInt(9) >> /\ dx = RInt(1)
    /\ sum = RInt(9)

\* C4: for n >= 3, any y and any non-zero dx, Operation D on (y, dx) returns
\* what Operation C returns on the abscissas x0 + k dx and y; Operation C on
\* evenly spaced x returns what D's loop and tail formulas give.
C4_UniformAgree ==
    /\ DoneCD("D") => \A x0 \in X0Vals : sum = OpC(Uniform(x0, dx, Len(y)), y)
    /\ (DoneCD("C") /\ IsUniform(x) /\ Len(x) % 2 = 0) =>
          LET n == Len(x)
              d == RSub(x[2], x[1])
          IN  C_Tail(x, y, SizeT(n - 3)) = D_Tail(y[n - 2], y[n - 1], y[n], d)

\* an even count (tail taken), a spacing other than 1, a non-zero result
C4_Witness ==
    /\ DoneCD("D") /\ tail /\ Len(y) = 6
    /\ dx = << 1, 2 >> /\ sum # RInt(0)

\* C7: for a polynomial of degree <= 2 sampled at strictly monotonic, possibly
\* non-uniform x with n >= 3, Operation C returns exactly the integral from
\* x[0] to x[n-1].
C7_QuadraticExact ==
    DoneCD("C") =>
        \A c \in Quadratics :
            y = Sample(c, x) => sum = Integral(c, x[1], x[Len(x)])

\* x = [0, 1, 3], y = [0, 1, 9] gives exactly 9
C7_Witness ==
    /\ DoneCD("C")
    /\ x = << RInt(0), RInt(1), RInt(3) >>
    /\ y = << RInt(0), RInt(1), RInt(9) >>
    /\ sum = RInt(9)

\* C9 as stated: for every sample count n, n = 2 included, a call of Operation
\* D that returns has run its tail step iff Operation C would for a container
\* of the same size, that is iff n is even and exceeds 2.
C9_Original ==
    (op = "D" /\ pc = "done") => (tail <=> C_HasTail(Len(y)))

\* C9 as amended: a call of Operation D that returns has added its tail term
\* exactly when the sample count is even, with no test that it exceeds 2.  For
\* n >= 3 that is when Operation C adds its tail, and D has then read y[n-3],
\* y[n-2], y[n-1]; for n = 2, where C skips the tail, D enters it with the
\* index size - 3 wrapped around to 2^64 - 1, and the call either faults at
\* that read, with no tail term added, or returns a sum that depends on the
\* value stored before y[0].
C9_Amended ==
    /\ (op = "D" /\ pc = "done") =>
          /\ tail <=> (Len(y) % 2 = 0)
          /\ Len(y) >= 3 => (tail <=> C_HasTail(Len(y)))
          /\ (tail /\ Len(y) >= 3) =>
                /\ { SizeT(Len(y) - 3), SizeT(Len(y) - 2), SizeT(Len(y) - 1) }
                      \subseteq reads
                /\ oob = RInt(0)
          /\ (tail /\ Len(y) = 2) =>
                /\ reads = { SizeMax, SizeT(0), SizeT(1) }
                /\ oob = RNeg(RDiv(dx, RInt(12)))
    /\ (op = "D" /\ pc = "fault") =>
          /\ Len(y) = 2 /\ ~tail /\ i = SizeMax /\ SizeMax \in reads
          /\ sum = RInt(0) /\ cover = << 0 >>
    /\ (op = "C" /\ pc = "done") => (tail <=> (Len(x) % 2 = 0 /\ Len(x) > 2))

\* D's tail at size 2 on an unchecked container: y = [0, 0] with dx = 1 and 8
\* stored before y[0] returns -2/3
C9_Witness ==
    /\ op = "D" /\ pc = "done" /\ Len(y) = 2
    /\ tail /\ SizeMax \in reads
    /\ y = << RInt(0), RInt(0) >> /\ dx = RInt(1)
    /\ Returned(sum, oob, RInt(8)) = << -2, 3 >>

\* C10: with n >= 3 elements, every index Operations C and D use lies in
\* 0 .. n-1, size - 2 and size - 3 do not wrap, no read is out of bounds, and
\* the main loop ends after exactly floor((n-1)/2) iterations.
C10_InBounds ==
    (op \in { "C", "D" } /\ Len(y) >= 3) =>
        /\ reads \subseteq { SizeT(k) : k \in 0 .. Len(y) - 1 }
        /\ USub(SizeT(Len(y)), SizeT(2)) = SizeT(Len(y) - 2)
        /\ USub(SizeT(Len(y)), SizeT(3)) = SizeT(Len(y) - 3)
        /\ pc # "fault"
        /\ iters <= (Len(y) - 1) \div 2
        /\ pc = "done" => iters = (Len(y) - 1) \div 2
        /\ (pc = "loop" /\ iters = (Len(y) - 1) \div 2) =>
              ~(IF op = "C" THEN C_LoopCond(i, Len(x)) ELSE D_LoopCond(i, Len(y)))

\* a finished call of D on the largest container: last index read
C10_Witness ==
    /\ DoneCD("D") /\ Len(y) = MaxLen
    /\ SizeT(MaxLen - 1) \in reads /\ iters = (MaxLen - 1) \div 2

====
